---- MODULE Spec2Model ----
(***************************************************************************)
(* Paginated extract-and-load scripts of Healthcare-Outcomes-Analysis:     *)
(*   elt/CMS_API_Extract_Load_Raw.py  (CMS hospital readmissions)          *)
(*   notebooks/web_scrape.py          (NY infections, NY hospital profiles)*)
(*   elt/webscrape_extract_load.py    (HCUP tables and scrape log)          *)
(*   elt/CBI_API_Extract_Load_Raw.py  (CBI hospitals)                       *)
(* A behaviour is a sequence of script runs against one database.  The     *)
(* remote source and the sink are the environment: every response and      *)
(* every sink outcome is chosen nondeterministically.                      *)
(***************************************************************************)
EXTENDS Integers, Sequences, FiniteSets, TLC

(* ------------------------------ bounds -------------------------------- *)
\* page size requested per fetch (500 in the CMS script, 1000 in the NY one)
Limit == 2
\* page fetches of a behaviour of one script run (the loops are unbounded)
MaxFetches == 4
\* page fetches of a behaviour of several script runs, all runs together
MaxRerunFetches == 3
\* largest total the source reports in "count"
MaxCount == 5
\* sink calls that fail in one behaviour
MaxSinkErrors == 1
\* rows per insert batch of to_sql (chunksize=1000 in the scripts)
ChunkSize == 2
\* rows of a snapshot handed to the sink writer called on its own
MaxRows == 3
\* rows of the smallest frame the HCUP script generates (25 in the script)
HcupRows == 1
\* runs of the HCUP script in one behaviour
MaxHcupRuns == 2
\* records in one response of the CBI source: the hospitals listed for one
\* state, the years of data of one hospital
MaxListed == 1
\* the cap on the sample of hospitals (50 in the script)
SampleCap == 2
\* nesting depth of a cell value given to process_nested_dicts
MaxDepth == 2
\* rows of a frame given to process_nested_dicts
MaxCells == 2

(* ------------------------------ state --------------------------------- *)
VARIABLES
    script,         \* the script being run: "none", "cms", "ny"
    dataset,        \* the dataset the script is working on
    pc,             \* position in the script
    run,            \* number of script runs started; stands for datetime.now()
    all_data,       \* the extraction function's buffer
    offset,         \* the extraction function's offset
    total_records,  \* CMS only: the reported total, None until reported
    df,             \* the data frame returned by the extraction function
    tables,         \* the database: table name -> [exists, rows]
    exit,           \* which break ended the pagination loop
    raised,         \* an exception left the extraction function
    received,       \* history: the pages received with status 200 and parsed
    lastResp,       \* history: kind of the last response
    fetches,        \* history: requests issued by the current extraction
    sleeps,         \* history: inter-request delays of the current extraction
    fetchesTotal,   \* history: requests issued in the behaviour
    sinkErrors,     \* history: sink calls that failed in the behaviour
    runSinkError,   \* history: a sink call failed while loading this dataset
    metaWritten,    \* history: metadata rows written for the current dataset
    metaWrites,     \* history: metadata rows written in the behaviour
    prev,           \* history: result and exit of the extraction before this
    loads,          \* history: the sink calls made for the current dataset
    requested,      \* history: what each request of the current loop asked for
    sample_hospitals, \* CBI: the hospital ids of the sample, in loop order
    hospital_data   \* CBI: the buffer of the per-hospital detail loop

vars == <<script, dataset, pc, run, all_data, offset, total_records, df,
          tables, exit, raised, received, lastResp, fetches, sleeps,
          fetchesTotal, sinkErrors, runSinkError, metaWritten, metaWrites, prev,
          loads, requested, sample_hospitals, hospital_data>>

None == 0 - 1

CMS_TABLE == "cms_hospital_readmissions"
NY_INFECTIONS_TABLE == "ny_hospital_infections"
NY_PROFILES_TABLE == "ny_hospital_profiles"
METADATA_TABLE == "extraction_metadata"

HCUP_READMISSIONS_TABLE == "hcup_readmissions_raw"
HCUP_QUALITY_TABLE == "hcup_quality_indicators_raw"
HCUP_HOSPITALS_TABLE == "hcup_hospitals_raw"
HCUP_LOG_TABLE == "hcup_scrape_log"
CBI_HOSPITALS_TABLE == "cbi_hospitals"
CBI_HOSPITAL_DATA_TABLE == "cbi_hospital_data"

\* the tables save_to_database writes, in the order it writes them
HcupTables ==
    <<HCUP_READMISSIONS_TABLE, HCUP_QUALITY_TABLE, HCUP_HOSPITALS_TABLE>>

TableNames ==
    {CMS_TABLE, NY_INFECTIONS_TABLE, NY_PROFILES_TABLE, METADATA_TABLE,
     HCUP_READMISSIONS_TABLE, HCUP_QUALITY_TABLE, HCUP_HOSPITALS_TABLE,
     HCUP_LOG_TABLE, CBI_HOSPITALS_TABLE, CBI_HOSPITAL_DATA_TABLE}

NoTable == [exists |-> FALSE, rows |-> <<>>]

(* ---------------------------- cell values ------------------------------ *)
\* A Python value as a record: t is its type, s the repr of a scalar, items
\* the elements of a list, the members of a dict, or the tokens of the text
\* json.dumps returned.
Scalar(t, s) == [t |-> t, s |-> s, items |-> <<>>]

PyNone == Scalar("NoneType", "None")

PyList(elements) == [t |-> "list", s |-> "", items |-> elements]

\* a dict member: s is the key, items holds the one value
Member(key, value) == [t |-> "member", s |-> key, items |-> <<value>>]

PyDict(members) == [t |-> "dict", s |-> "", items |-> members]

\* a str that holds JSON text, token by token
JsonText(tokens) == [t |-> "text", s |-> "", items |-> tokens]

Token(kind, s) == [t |-> kind, s |-> s, items |-> <<>>]

Punct(s) == Token("punct", s)

\* isinstance(x, (dict, list))
IsNested(v) == v.t \in {"dict", "list"}

\* the text of value v, token by token.  style "json" is json.dumps: strings
\* in double quotes, True/False/None written true/false/null; style "str" is
\* Python's str(): strings in single quotes, True/False/None as they are.
\* A number is written as its repr, with a fraction for a float (token
\* "real") and without for an int (token "integer").
RECURSIVE Serialize(_, _)
RECURSIVE SerializeItems(_, _)
SerializeItems(elements, style) ==
    IF Len(elements) = 0 THEN <<>>
    ELSE Serialize(Head(elements), style)
         \o (IF Len(elements) = 1 THEN <<>>
             ELSE <<Punct(",")>> \o SerializeItems(Tail(elements), style))

Serialize(v, style) ==
    CASE v.t = "list" ->
           <<Punct("[")>> \o SerializeItems(v.items, style) \o <<Punct("]")>>
      [] v.t = "dict" ->
           <<Punct("{")>> \o SerializeItems(v.items, style) \o <<Punct("}")>>
      [] v.t = "member" ->
           <<Token(IF style = "json" THEN "string" ELSE "sq_string", v.s),
             Punct(":")>> \o Serialize(v.items[1], style)
      [] v.t = "str" ->
           <<Token(IF style = "json" THEN "string" ELSE "sq_string", v.s)>>
      [] v.t = "bool" ->
           <<Token("literal",
                   IF style # "json" THEN v.s
                   ELSE IF v.s = "True" THEN "true" ELSE "false")>>
      [] v.t = "NoneType" ->
           <<Token("literal", IF style = "json" THEN "null" ELSE v.s)>>
      [] v.t = "float" -> <<Token("real", v.s)>>
      [] OTHER -> <<Token("integer", v.s)>>

PyStr(v) == Serialize(v, "str")

\* json.dumps(x)
json_dumps(v) == Serialize(v, "json")

(* --------------------------- the source -------------------------------- *)
\* what one requests.get can come to; "malformed" is a 200 response whose
\* body is JSON of another structure than a page: a JSON object without
\* "results" for the CMS loop, a JSON object instead of an array for the NY
\* loops
ResponseKinds == {"conn_error", "http_error", "bad_json", "ok", "malformed"}

FailKinds == {"conn_error", "http_error", "bad_json"}

\* the k-th record the source serves to one extraction; every second record
\* carries a nested (dict/list) value.  ratio is a field the analyses use
\* as a number (excess_readmission_ratio, indicator_value): the sources
\* deliver it as a string, "N/A" in every third record where there is none
SourceRecord(k) ==
    [id |-> k,
     ratio |-> Scalar("str", IF k % 3 = 0 THEN "N/A" ELSE "0.9875"),
     val |-> IF k % 2 = 0
             THEN PyDict(<<Member("type", PyNone)>>)
             ELSE Scalar("str", "a")]

\* a page of `size` records, served after `served` earlier ones
PageOf(served, size) == [i \in 1..size |-> SourceRecord(served + i)]

\* what list.extend takes from a JSON object of `size` members: its keys,
\* which are strings, not records (id 0 marks them)
ObjectKeys(size) ==
    [i \in 1..size |-> [id |-> 0, ratio |-> PyNone, val |-> Scalar("str", "key")]]

\* whether an element of the buffer is a record (a mapping)
IsMapping(element) == element.id # 0

\* the records of a sequence of pages, in page order
RECURSIVE Flatten(_)
Flatten(pages) ==
    IF Len(pages) = 0 THEN <<>> ELSE Head(pages) \o Flatten(Tail(pages))

\* the "count" field of a CMS response body: None when the body has none
CountValues == {None} \cup (0..MaxCount)

(* ------------------------ extraction functions ------------------------- *)
\* the exceptions the try body of the pagination loops can raise
ExceptionClasses == {"ConnectionError", "ValueError", "TypeError"}

CatchesRequestErrorsOnly(exc) == exc = "ConnectionError"

\* `except Exception as e:` of the pagination loops
Catches(exc) == exc \in ExceptionClasses

ExtendDropsEarlier(buffer, page) == page

\* list.extend
Extend(buffer, page) == buffer \o page

CmsNeverAllFetched(n, total) == FALSE

\* `len(all_data) >= total_records`, for a reported total
CmsAllFetched(n, total) == n >= total

NyNeverAllFetched(data) == FALSE

NyAlwaysAllFetched(data) == TRUE

\* `len(data) < limit`
NyAllFetched(data) == Len(data) < Limit

AlwaysTruthy(page) == TRUE

\* `if results:` / `if data:`
Truthy(page) == Len(page) > 0

AdvanceStays(off, page) == off

AdvanceByReceived(off, page) == off + Len(page)

\* `offset += limit`, after a non-empty page was merged
Advance(off, page) == off + Limit

SleepsAlways(break) == TRUE

\* time.sleep(0.5) is the last statement of the branch that merged a
\* page: it runs when no break was taken before it
Sleeps(break) == break = "none"

\* pd.DataFrame(all_data) raises AttributeError, outside the try block of
\* the loop, on a list that begins with a mapping and holds a string
DataFrameRaises(records) ==
    /\ Len(records) > 0
    /\ IsMapping(records[1])
    /\ \E i \in 1..Len(records) : ~IsMapping(records[i])

\* pd.DataFrame(all_data) with the extracted_at column added
DataFrame(records, now) ==
    [i \in 1..Len(records) |->
        [id |-> records[i].id, ratio |-> records[i].ratio,
         val |-> records[i].val, extracted_at |-> now]]

\* the records of a data frame, without the extracted_at column
Records(frame) ==
    [i \in 1..Len(frame) |->
        [id |-> frame[i].id, ratio |-> frame[i].ratio, val |-> frame[i].val]]

\* One iteration of the CMS while loop on response resp, of a source that
\* served f records before.
\* Result: the locals after the iteration, the break taken ("none": the
\* loop goes on), the exception raised in the try body ("none": no
\* exception) and whether time.sleep ran.
CmsIteration(f, resp, buf, off, total) ==
    LET same(ex, br) == [all_data |-> buf, offset |-> off, total_records |-> total,
                         exc |-> ex, break |-> br, slept |-> FALSE]
    IN  IF resp.kind = "conn_error" THEN same("ConnectionError", "exception")
        ELSE IF resp.kind = "http_error" THEN same("none", "http_error")
        ELSE IF resp.kind = "bad_json" THEN same("ValueError", "exception")
        ELSE
          LET total1 == IF total = None /\ resp.count # None
                        THEN resp.count ELSE total
              \* data.get("results", [])
              results == IF resp.kind = "malformed" THEN <<>>
                         ELSE PageOf(f, resp.size)
              buf1 == Extend(buf, results)
              grown(ex, br) ==
                  [all_data |-> buf1, offset |-> Advance(off, results),
                   total_records |-> total1, exc |-> ex, break |-> br,
                   slept |-> Sleeps(br)]
          IN  IF Truthy(results)
              THEN IF total1 = None
                   THEN grown("TypeError", "exception")
                   ELSE IF CmsAllFetched(Len(buf1), total1)
                        THEN grown("none", "all_fetched")
                        ELSE grown("none", "none")
              ELSE [all_data |-> buf, offset |-> off, total_records |-> total1,
                    exc |-> "none", break |-> "no_more", slept |-> FALSE]

\* One iteration of the while loop of extract_ny_hospital_infections_data
\* and of extract_ny_hospital_profiles (the same loop twice).
NyIteration(f, resp, buf, off) ==
    LET same(ex, br) == [all_data |-> buf, offset |-> off, total_records |-> None,
                         exc |-> ex, break |-> br, slept |-> FALSE]
    IN  IF resp.kind = "conn_error" THEN same("ConnectionError", "exception")
        ELSE IF resp.kind = "http_error" THEN same("none", "http_error")
        ELSE IF resp.kind = "bad_json" THEN same("ValueError", "exception")
        ELSE
          LET data == IF resp.kind = "malformed" THEN ObjectKeys(resp.size)
                      ELSE PageOf(f, resp.size)
              buf1 == Extend(buf, data)
              grown(br) ==
                  [all_data |-> buf1, offset |-> Advance(off, data),
                   total_records |-> None, exc |-> "none", break |-> br,
                   slept |-> Sleeps(br)]
          IN  IF Truthy(data)
              THEN IF NyAllFetched(data)
                   THEN grown("all_fetched")
                   ELSE grown("none")
              ELSE same("none", "no_more")

ExhaustedBreaks == {"all_fetched", "no_more"}
AbortedBreaks == {"http_error", "exception"}

(* ------------------------------ the sink ------------------------------- *)
\* df.empty
Empty(frame) == Len(frame) = 0

\* the cells of one column after `df[col].apply(lambda x: json.dumps(x) if
\* isinstance(x, (dict, list)) else x)`
JsonDumpsEveryCell(v) == JsonText(json_dumps(v))

JsonDumpsNested(v) == IF IsNested(v) THEN JsonText(json_dumps(v)) ELSE v

\* process_nested_dicts: the column is rewritten when any of its cells holds
\* a dict or a list
process_nested_dicts(frame) ==
    IF \E i \in 1..Len(frame) : IsNested(frame[i].val)
    THEN [i \in 1..Len(frame) |->
            [frame[i] EXCEPT !.val = JsonDumpsNested(frame[i].val)]]
    ELSE frame

\* the insert batches of to_sql(chunksize=...)
RECURSIVE Chunks(_)
Chunks(rows) ==
    IF Len(rows) = 0 THEN <<>>
    ELSE IF Len(rows) <= ChunkSize THEN <<rows>>
    ELSE <<SubSeq(rows, 1, ChunkSize)>>
         \o Chunks(SubSeq(rows, ChunkSize + 1, Len(rows)))

RECURSIVE InsertChunks(_, _)
InsertChunks(rows, chunks) ==
    IF Len(chunks) = 0 THEN rows
    ELSE InsertChunks(rows \o Head(chunks), Tail(chunks))

ToSqlAppends(old, frame) ==
    [exists |-> TRUE, rows |-> old.rows \o InsertChunks(<<>>, Chunks(frame))]

\* df.to_sql(if_exists='replace'): the table is dropped, created again and
\* filled batch by batch
ToSqlReplace(old, frame) ==
    [exists |-> TRUE, rows |-> InsertChunks(<<>>, Chunks(frame))]

\* what a to_sql that raised can leave behind: the old table (rolled back),
\* no table (dropped, not created again) or an empty table (created, the
\* insert rolled back)
FailedWriteStates(old) == {old, NoTable, [exists |-> TRUE, rows |-> <<>>]}

\* outcomes of the two sink calls of load_to_postgres_raw
SinkOutcomes == {"ok", "write_error", "count_error"}

\* load_to_postgres_raw(df, table_name): the database after the call.
\* after is the state a failed write leaves the table in.
load_to_postgres_raw(db, frame, table_name, outcome, after) ==
    IF Empty(frame) THEN db
    ELSE IF outcome = "write_error" THEN [db EXCEPT ![table_name] = after]
    ELSE [db EXCEPT ![table_name] = ToSqlReplace(db[table_name], frame)]

SinkStatementsCountAlways(frame, outcome) ==
    IF Empty(frame) THEN <<>> ELSE <<"to_sql", "count">>

\* the statements one call sends to the sink, in order: the COUNT(*) query
\* follows to_sql inside the same try, so a to_sql that raised skips it
SinkStatements(frame, outcome) ==
    IF Empty(frame) THEN <<>>
    ELSE IF outcome = "write_error" THEN <<"to_sql">>
    ELSE <<"to_sql", "count">>

\* SELECT COUNT(*) FROM raw.<table_name>
CountQuery(db, table_name) == Len(db[table_name].rows)

\* the history record of one call: what the sink did to it, the statements
\* sent and the count printed (None when none was printed)
LoadCall(db, frame, table_name, outcome, after) ==
    LET db1 == load_to_postgres_raw(db, frame, table_name, outcome, after)
    IN  [table_name |-> table_name,
         outcome |-> outcome,
         rows |-> Len(frame),
         statements |-> SinkStatements(frame, outcome),
         count |-> IF ~Empty(frame) /\ outcome = "ok"
                   THEN CountQuery(db1, table_name) ELSE None]

\* the same record with the table as the call found it and as it left it
LoadCallOnTable(db, frame, table_name, outcome, after) ==
    LET c == LoadCall(db, frame, table_name, outcome, after)
    IN  [table_name |-> c.table_name, outcome |-> c.outcome, rows |-> c.rows,
         before |-> db[table_name],
         after |-> load_to_postgres_raw(db, frame, table_name, outcome,
                                        after)[table_name],
         statements |-> c.statements, count |-> c.count]

\* whether the call reached the sink and an exception was caught in it
SinkFailed(frame, outcome) == ~Empty(frame) /\ outcome # "ok"

\* whether the call replaced the table by the frame
Written(frame, outcome) == ~Empty(frame) /\ outcome # "write_error"

\* the one-row extraction_metadata frame the scripts build
extraction_metadata(ds, frame, now) ==
    <<[dataset |-> ds, rows_extracted |-> Len(frame), extracted_at |-> now,
       extraction_status |-> "success"]>>

(* ------------------------------ scripts -------------------------------- *)
Init ==
    /\ script = "none"
    /\ dataset = "none"
    /\ pc = "idle"
    /\ run = 0
    /\ all_data = <<>>
    /\ offset = 0
    /\ total_records = None
    /\ df = <<>>
    /\ tables = [t \in TableNames |-> NoTable]
    /\ exit = "none"
    /\ raised = FALSE
    /\ received = <<>>
    /\ lastResp = "none"
    /\ fetches = 0
    /\ sleeps = 0
    /\ fetchesTotal = 0
    /\ sinkErrors = 0
    /\ runSinkError = FALSE
    /\ metaWritten = <<>>
    /\ metaWrites = 0
    /\ prev = [records |-> <<>>, exit |-> "none"]
    /\ loads = <<>>
    /\ requested = <<>>
    /\ sample_hospitals = <<>>
    /\ hospital_data = <<>>

\* the call of an extraction function: its locals at the top of the loop
BeginExtraction(ds) ==
    /\ dataset' = ds
    /\ pc' = "fetching"
    /\ all_data' = <<>>
    /\ offset' = 0
    /\ total_records' = None
    /\ df' = <<>>
    /\ exit' = "none"
    /\ raised' = FALSE
    /\ received' = <<>>
    /\ lastResp' = "none"
    /\ fetches' = 0
    /\ sleeps' = 0
    /\ runSinkError' = FALSE
    /\ metaWritten' = <<>>
    /\ prev' = IF exit # "none" THEN [records |-> all_data, exit |-> exit]
               ELSE prev
    /\ loads' = <<>>
    /\ requested' = <<>>
    /\ UNCHANGED <<sample_hospitals, hospital_data>>

\* the bound on the fetches of a behaviour
FetchAllowed ==
    fetchesTotal < (IF run <= 1 THEN MaxFetches ELSE MaxRerunFetches)

\* a script may start on a fresh database and after another script's end
StartAllowed ==
    \/ pc = "idle"
    \/ pc = "finished" /\ fetchesTotal < MaxRerunFetches

\* a run of CMS_API_Extract_Load_Raw.py begins
StartCms ==
    /\ StartAllowed
    /\ script' = "cms"
    /\ run' = run + 1
    /\ BeginExtraction(CMS_TABLE)
    /\ UNCHANGED <<tables, fetchesTotal, sinkErrors, metaWrites>>

\* a run of web_scrape.py begins
StartNy ==
    /\ StartAllowed
    /\ script' = "ny"
    /\ run' = run + 1
    /\ BeginExtraction(NY_INFECTIONS_TABLE)
    /\ UNCHANGED <<tables, fetchesTotal, sinkErrors, metaWrites>>

\* the responses the source can give to one request
Responses ==
    [kind : FailKinds, size : {0}, count : {None}]
    \cup [kind : {"ok"}, size : 0..Limit, count : CountValues]
    \cup [kind : {"malformed"}, size : 0..(Limit - 1), count : {None}]

\* the state after one loop iteration r on response resp: the loop goes on,
\* or the function returns its data frame, or the exception leaves it
AfterIteration(resp, r) ==
    /\ all_data' = r.all_data
    /\ offset' = r.offset
    /\ total_records' = r.total_records
    /\ exit' = r.break
    /\ fetches' = fetches + 1
    /\ fetchesTotal' = fetchesTotal + 1
    /\ sleeps' = IF r.slept THEN sleeps + 1 ELSE sleeps
    /\ lastResp' = resp.kind
    /\ requested' = Append(requested, offset)
    /\ received' = IF resp.kind = "ok"
                   THEN Append(received, PageOf(Len(Flatten(received)), resp.size))
                   ELSE IF resp.kind = "malformed"
                   THEN Append(received, SubSeq(r.all_data, Len(all_data) + 1,
                                                Len(r.all_data)))
                   ELSE received
    /\ IF r.break = "none"
       THEN pc' = "fetching" /\ UNCHANGED <<df, raised>>
       ELSE IF (r.exc # "none" /\ ~Catches(r.exc)) \/ DataFrameRaises(r.all_data)
            THEN pc' = "crashed" /\ raised' = TRUE /\ UNCHANGED df
            ELSE /\ pc' = "returned"
                 /\ df' = DataFrame(r.all_data, run)
                 /\ UNCHANGED raised
    /\ UNCHANGED <<script, dataset, run, tables, sinkErrors, runSinkError,
                   metaWritten, metaWrites, prev, loads, sample_hospitals,
                   hospital_data>>

\* one iteration of the loop of extract_cms_readmission_data
CmsFetch ==
    /\ pc = "fetching"
    /\ script = "cms"
    /\ FetchAllowed
    /\ \E resp \in Responses :
         /\ resp.kind = "malformed" => resp.size = 0
         /\ AfterIteration(resp, CmsIteration(Len(Flatten(received)), resp, all_data,
                                           offset, total_records))

\* one iteration of the loop of extract_ny_hospital_infections_data or of
\* extract_ny_hospital_profiles
NyFetch ==
    /\ pc = "fetching"
    /\ script = "ny"
    /\ FetchAllowed
    /\ \E resp \in Responses :
         /\ resp.count = None
         /\ AfterIteration(resp, NyIteration(Len(Flatten(received)), resp, all_data,
                                             offset))

\* the sink outcomes still allowed by the bound on sink failures
AllowedOutcomes ==
    IF sinkErrors < MaxSinkErrors THEN SinkOutcomes ELSE {"ok"}

\* the block that loads the extracted frame: `if not <frame>.empty:` with,
\* in web_scrape.py, process_nested_dicts before load_to_postgres_raw
LoadDataset ==
    /\ pc = "returned"
    /\ \E outcome \in AllowedOutcomes :
       \E after \in FailedWriteStates(tables[dataset]) :
         LET frame == IF script = "ny" /\ ~Empty(df)
                      THEN process_nested_dicts(df) ELSE df
         IN  /\ outcome # "write_error" => after = tables[dataset]
             /\ df' = frame
             /\ tables' = IF Empty(df) THEN tables
                          ELSE load_to_postgres_raw(tables, frame, dataset,
                                                    outcome, after)
             /\ sinkErrors' = IF SinkFailed(frame, outcome)
                              THEN sinkErrors + 1 ELSE sinkErrors
             /\ runSinkError' = (runSinkError \/ SinkFailed(frame, outcome))
             /\ loads' = IF Empty(df) THEN loads
                         ELSE Append(loads, LoadCall(tables, frame, dataset,
                                                     outcome, after))
             /\ pc' = IF Empty(df) \/ dataset = NY_PROFILES_TABLE
                      THEN "dataset_done" ELSE "loaded"
    /\ UNCHANGED <<script, dataset, run, all_data, offset, total_records, requested,
                   sample_hospitals, hospital_data,
                   exit, raised, received, lastResp, fetches, sleeps,
                   fetchesTotal, metaWritten, metaWrites, prev>>

\* the rest of the `if not <frame>.empty:` block of the CMS script and of
\* the infections cell: the metadata frame and its load_to_postgres_raw
LoadMetadata ==
    /\ pc = "loaded"
    /\ \E outcome \in AllowedOutcomes :
       \E after \in FailedWriteStates(tables[METADATA_TABLE]) :
         LET meta == extraction_metadata(dataset, df, run)
         IN  /\ outcome # "write_error" => after = tables[METADATA_TABLE]
             /\ tables' = load_to_postgres_raw(tables, meta, METADATA_TABLE,
                                               outcome, after)
             /\ sinkErrors' = IF SinkFailed(meta, outcome)
                              THEN sinkErrors + 1 ELSE sinkErrors
             /\ runSinkError' = (runSinkError \/ SinkFailed(meta, outcome))
             /\ metaWritten' = IF Written(meta, outcome)
                               THEN metaWritten \o meta ELSE metaWritten
             /\ metaWrites' = IF Written(meta, outcome)
                              THEN metaWrites + 1 ELSE metaWrites
             /\ loads' = Append(loads, LoadCall(tables, meta, METADATA_TABLE,
                                                outcome, after))
    /\ pc' = "dataset_done"
    /\ UNCHANGED <<script, dataset, run, all_data, offset, total_records, requested,
                   sample_hospitals, hospital_data, df,
                   exit, raised, received, lastResp, fetches, sleeps,
                   fetchesTotal, prev>>

\* web_scrape.py goes on to its second dataset
StartProfiles ==
    /\ pc = "dataset_done"
    /\ script = "ny"
    /\ dataset = NY_INFECTIONS_TABLE
    /\ BeginExtraction(NY_PROFILES_TABLE)
    /\ UNCHANGED <<script, run, tables, fetchesTotal, sinkErrors, metaWrites>>

\* engine.dispose(): the script ends
Finish ==
    /\ pc = "dataset_done"
    /\ ~(script = "ny" /\ dataset = NY_INFECTIONS_TABLE)
    /\ pc' = "finished"
    /\ UNCHANGED <<script, dataset, run, all_data, offset, total_records, requested,
                   sample_hospitals, hospital_data, df,
                   tables, exit, raised, received, lastResp, fetches, sleeps,
                   fetchesTotal, sinkErrors, runSinkError, metaWritten,
                   metaWrites, prev, loads>>

Next ==
    \/ StartCms
    \/ StartNy
    \/ CmsFetch
    \/ NyFetch
    \/ LoadDataset
    \/ LoadMetadata
    \/ StartProfiles
    \/ Finish

Spec == Init /\ [][Next]_vars

(* ------------------- webscrape_extract_load.py (HCUP) ------------------ *)
\* the frames of get_readmissions_data, get_quality_indicators_data and
\* get_hospital_characteristics: seeded generators, the same rows in every
\* run, three different sizes
HcupFrame(i) ==
    [k \in 1..(HcupRows + i - 1) |-> [id |-> k, source |-> HcupTables[i]]]

\* <frame>.to_sql(<table>, if_exists='replace') without chunksize: one insert
ToSqlReplaceWhole(old, frame) == [exists |-> TRUE, rows |-> frame]

\* the writes save_to_database attempts when its failAt-th to_sql raises
\* (0: none raises): all three share one try block, so the first exception
\* skips the writes after it
HcupAttempted(failAt) == IF failAt = 0 THEN 1..Len(HcupTables) ELSE 1..failAt

\* save_to_database(readmissions_df, qi_df, hospitals_df): the database
\* after the call; after is what the raising to_sql leaves of its table
save_to_database(db, failAt, after) ==
    [t \in TableNames |->
        IF \E i \in HcupAttempted(failAt) : HcupTables[i] = t
        THEN LET i == CHOOSE j \in HcupAttempted(failAt) : HcupTables[j] = t
             IN  IF i = failAt THEN after
                 ELSE ToSqlReplaceWhole(db[t], HcupFrame(i))
        ELSE db[t]]

\* the history record of the i-th to_sql of save_to_database
HcupWrite(db, i, failAt, after) ==
    [table_name |-> HcupTables[i],
     outcome |-> IF i = failAt THEN "write_error" ELSE "ok",
     rows |-> Len(HcupFrame(i)),
     before |-> db[HcupTables[i]],
     after |-> save_to_database(db, failAt, after)[HcupTables[i]],
     statements |-> <<"to_sql">>,
     count |-> None]

\* timestamp_df: one row with the sizes of the three frames
timestamp_df(now) ==
    <<[last_updated |-> now, source |-> "hcup_simulation",
       record_count_readmissions |-> Len(HcupFrame(1)),
       record_count_quality_indicators |-> Len(HcupFrame(2)),
       record_count_hospitals |-> Len(HcupFrame(3))]>>

\* timestamp_df.to_sql('hcup_scrape_log', if_exists='append')
ToSqlAppend(old, frame) == [exists |-> TRUE, rows |-> old.rows \o frame]

\* what a raising append can leave: the table as it was, or, when there was
\* none, the empty table just created
FailedAppendStates(old) ==
    IF old.exists THEN {old} ELSE {old, [exists |-> TRUE, rows |-> <<>>]}

\* a run of webscrape_extract_load.py begins: the three frames are generated
StartHcup ==
    /\ pc \in {"idle", "finished", "crashed"}
    /\ run < MaxHcupRuns
    /\ script' = "hcup"
    /\ run' = run + 1
    /\ dataset' = "hcup"
    /\ pc' = "hcup_collected"
    /\ raised' = FALSE
    /\ runSinkError' = FALSE
    /\ loads' = <<>>
    /\ UNCHANGED <<all_data, offset, total_records, requested,
                   sample_hospitals, hospital_data, df, tables, exit, received,
                   lastResp, fetches, sleeps, fetchesTotal, sinkErrors,
                   metaWritten, metaWrites, prev>>

\* save_to_database(readmissions_df, qi_df, hospitals_df)
SaveToDatabase ==
    /\ pc = "hcup_collected"
    /\ \E failAt \in 0..Len(HcupTables) :
       \E after \in (IF failAt = 0 THEN {NoTable}
                     ELSE FailedWriteStates(tables[HcupTables[failAt]])) :
         /\ tables' = save_to_database(tables, failAt, after)
         /\ loads' = [i \in HcupAttempted(failAt) |->
                         HcupWrite(tables, i, failAt, after)]
         /\ sinkErrors' = IF failAt = 0 THEN sinkErrors ELSE sinkErrors + 1
         /\ runSinkError' = (failAt # 0)
    /\ pc' = "hcup_saved"
    /\ UNCHANGED <<script, dataset, run, all_data, offset, total_records, requested,
                   sample_hospitals, hospital_data, df,
                   exit, raised, received, lastResp, fetches, sleeps,
                   fetchesTotal, metaWritten, metaWrites, prev>>

\* the cell that appends timestamp_df to raw.hcup_scrape_log; it has no try
\* block, so a raising to_sql ends the script
WriteScrapeLog ==
    /\ pc = "hcup_saved"
    /\ \/ /\ tables' = [tables EXCEPT ![HCUP_LOG_TABLE] =
                            ToSqlAppend(tables[HCUP_LOG_TABLE], timestamp_df(run))]
          /\ pc' = "hcup_logged"
          /\ UNCHANGED <<raised, sinkErrors>>
       \/ /\ \E after \in FailedAppendStates(tables[HCUP_LOG_TABLE]) :
                tables' = [tables EXCEPT ![HCUP_LOG_TABLE] = after]
          /\ pc' = "crashed"
          /\ raised' = TRUE
          /\ sinkErrors' = sinkErrors + 1
    /\ UNCHANGED <<script, dataset, run, all_data, offset, total_records, requested,
                   sample_hospitals, hospital_data, df,
                   exit, received, lastResp, fetches, sleeps, fetchesTotal,
                   runSinkError, metaWritten, metaWrites, prev, loads>>

\* the summary cell: the script ends
HcupSummary ==
    /\ pc = "hcup_logged"
    /\ pc' = "finished"
    /\ UNCHANGED <<script, dataset, run, all_data, offset, total_records, requested,
                   sample_hospitals, hospital_data, df,
                   tables, exit, raised, received, lastResp, fetches, sleeps,
                   fetchesTotal, sinkErrors, runSinkError, metaWritten,
                   metaWrites, prev, loads>>

NextHcup ==
    \/ StartHcup
    \/ SaveToDatabase
    \/ WriteScrapeLog
    \/ HcupSummary

SpecHcup == Init /\ [][NextHcup]_vars

(* ------------------- CBI_API_Extract_Load_Raw.py ----------------------- *)
\* The script is a sequence of `# %%` cells.  Run as a script it ends at
\* the first exception no try block catches; run cell by cell, the cell
\* that raised is left and the next one can still be run.  Both ways of
\* running it are behaviours: a cell that raises sets `raised` and either
\* ends the run or hands over to the next cell.
target_states == <<"MA", "NJ", "FL", "RI", "CT">>

\* the responses of get_hospitals.php and of get_hospital_data.php to one
\* request
CbiResponses ==
    [kind : FailKinds, size : {0}] \cup [kind : {"ok"}, size : 0..MaxListed]

\* pd.DataFrame(all_hospitals): one row per record, no column added
HospitalsFrame(records) == [i \in 1..Len(records) |-> records[i]]

\* the body of get_hospital_data.php for one hospital: one record a year
DetailPage(hospital_id, size) ==
    [y \in 1..size |-> [hospital_id |-> hospital_id, year |-> y]]

SampleSizeUncapped(frame) == Len(frame)

\* sample_size = min(50, len(hospitals_df))
sample_size(frame) ==
    IF SampleCap <= Len(frame) THEN SampleCap ELSE Len(frame)

\* hospitals_df.sample(sample_size): sample_size rows drawn at random
\* without replacement, in the order drawn; hospital['hospital_id'] of each
Samples(frame) ==
    LET picks == {p \in [1..sample_size(frame) -> 1..Len(frame)] :
                     \A i, j \in 1..sample_size(frame) : i # j => p[i] # p[j]}
    IN  {[i \in 1..sample_size(frame) |-> frame[p[i]].id] : p \in picks}

\* the cell left by an exception: the run ends there, or the cell after it
\* is run
CellRaised(next) ==
    /\ raised' = TRUE
    /\ pc' \in {"crashed", next}

\* a run of CBI_API_Extract_Load_Raw.py begins: the imports, load_dotenv()
\* and the connection details, with DB_HOST, DB_USER and DB_PASSWORD set
StartCbi ==
    /\ pc = "idle"
    /\ script' = "cbi"
    /\ run' = run + 1
    /\ dataset' = CBI_HOSPITALS_TABLE
    /\ pc' = "cbi_configured"
    /\ UNCHANGED <<all_data, offset, total_records, requested,
                   sample_hospitals, hospital_data, df, tables, exit, raised,
                   received, lastResp, fetches, sleeps, fetchesTotal,
                   sinkErrors, runSinkError, metaWritten, metaWrites, prev,
                   loads>>

\* the cell that prints the connection parameters: its third print reads
\* db_schema, a name no cell defines, and raises NameError
CbiPrintParameters ==
    /\ pc = "cbi_configured"
    /\ CellRaised("cbi_printed")
    /\ UNCHANGED <<script, dataset, run, all_data, offset, total_records,
                   requested, sample_hospitals, hospital_data, df, tables,
                   exit, received, lastResp, fetches, sleeps, fetchesTotal,
                   sinkErrors, runSinkError, metaWritten, metaWrites, prev,
                   loads>>

\* create_engine, the connection test inside try/except (a failure is
\* printed and nothing else), the endpoints, and `all_hospitals = []`
CbiTestConnection ==
    /\ pc = "cbi_printed"
    /\ pc' = "cbi_states"
    /\ raised' = FALSE
    /\ all_data' = <<>>
    /\ UNCHANGED <<script, dataset, run, offset, total_records, requested,
                   sample_hospitals, hospital_data, df, tables, exit,
                   received, lastResp, fetches, sleeps, fetchesTotal,
                   sinkErrors, runSinkError, metaWritten, metaWrites, prev,
                   loads>>

\* one iteration of `for state in target_states:`.  requests.get and
\* response.json() stand outside any try block and the status code is not
\* looked at: an exception of requests.get, and the ValueError of
\* response.json() on a body that is no JSON (an error page, a damaged
\* body), leave the loop and the cell
CbiFetchState ==
    /\ pc = "cbi_states"
    /\ fetches < Len(target_states)
    /\ \E resp \in CbiResponses :
         /\ lastResp' = resp.kind
         /\ fetches' = fetches + 1
         /\ requested' = Append(requested, target_states[fetches + 1])
         /\ IF resp.kind = "ok"
            THEN LET hospitals == PageOf(Len(all_data), resp.size)
                 IN  /\ all_data' = Extend(all_data, hospitals)
                     /\ received' = Append(received, hospitals)
                     /\ pc' = IF fetches + 1 = Len(target_states)
                              THEN "cbi_listed" ELSE "cbi_states"
                     /\ UNCHANGED raised
            ELSE /\ CellRaised("cbi_listed")
                 /\ UNCHANGED <<all_data, received>>
    /\ UNCHANGED <<script, dataset, run, offset, total_records,
                   sample_hospitals, hospital_data, df, tables, exit, sleeps,
                   fetchesTotal, sinkErrors, runSinkError, metaWritten,
                   metaWrites, prev, loads>>

\* hospitals_df = pd.DataFrame(all_hospitals) and the cell that saves it:
\* to_sql(if_exists='replace') inside try/except
CbiSaveHospitals ==
    /\ pc = "cbi_listed"
    /\ \E outcome \in {"ok", "write_error"} :
       \E after \in FailedWriteStates(tables[CBI_HOSPITALS_TABLE]) :
         LET frame == HospitalsFrame(all_data)
             new == IF outcome = "ok"
                    THEN ToSqlReplaceWhole(tables[CBI_HOSPITALS_TABLE], frame)
                    ELSE after
         IN  /\ outcome = "ok" => after = tables[CBI_HOSPITALS_TABLE]
             /\ df' = frame
             /\ tables' = [tables EXCEPT ![CBI_HOSPITALS_TABLE] = new]
             /\ loads' = Append(loads,
                    [table_name |-> CBI_HOSPITALS_TABLE, outcome |-> outcome,
                     rows |-> Len(frame),
                     before |-> tables[CBI_HOSPITALS_TABLE], after |-> new,
                     statements |-> <<"to_sql">>, count |-> None])
             /\ sinkErrors' = IF outcome = "ok" THEN sinkErrors
                              ELSE sinkErrors + 1
             /\ runSinkError' = (outcome # "ok")
    /\ pc' = "cbi_hospitals_saved"
    /\ raised' = FALSE
    /\ UNCHANGED <<script, dataset, run, all_data, offset, total_records,
                   requested, sample_hospitals, hospital_data, exit,
                   received, lastResp, fetches, sleeps, fetchesTotal,
                   metaWritten, metaWrites, prev>>

\* the cell that draws the sample, and `hospital_data = []` at the top of
\* the cell of the detail loop
CbiSample ==
    /\ pc = "cbi_hospitals_saved"
    /\ sample_hospitals' \in Samples(df)
    /\ hospital_data' = <<>>
    /\ pc' = "cbi_details"
    /\ dataset' = CBI_HOSPITAL_DATA_TABLE
    /\ received' = <<>>
    /\ requested' = <<>>
    /\ lastResp' = "none"
    /\ fetches' = 0
    /\ sleeps' = 0
    /\ UNCHANGED <<script, run, all_data, offset, total_records, df, tables,
                   exit, raised, fetchesTotal, sinkErrors, runSinkError,
                   metaWritten, metaWrites, prev, loads>>

\* one iteration of `for index, hospital in sample_hospitals.iterrows():`.
\* The outer try catches every exception of requests.get; a status other
\* than 200 is printed; the inner try catches the ValueError of
\* response.json(); time.sleep(0.5) ends every iteration
CbiFetchDetail ==
    /\ pc = "cbi_details"
    /\ fetches < Len(sample_hospitals)
    /\ \E resp \in CbiResponses :
         LET hospital_id == sample_hospitals[fetches + 1]
             data == DetailPage(hospital_id, resp.size)
         IN  /\ requested' = Append(requested, hospital_id)
             /\ lastResp' = resp.kind
             /\ IF resp.kind = "ok"
                THEN /\ hospital_data' = Extend(hospital_data, data)
                     /\ received' = Append(received, data)
                ELSE UNCHANGED <<hospital_data, received>>
    /\ fetches' = fetches + 1
    /\ sleeps' = sleeps + 1
    /\ UNCHANGED <<script, dataset, pc, run, all_data, offset, total_records,
                   sample_hospitals, df, tables, exit, raised, fetchesTotal,
                   sinkErrors, runSinkError, metaWritten, metaWrites, prev,
                   loads>>

\* the loop is over; hospital_data_df = pd.DataFrame(hospital_data) and the
\* cell that saves it: inside try/except, `if hospital_data:` guards the
\* to_sql(if_exists='replace'); the script ends
CbiSaveHospitalData ==
    /\ pc = "cbi_details"
    /\ fetches = Len(sample_hospitals)
    /\ IF Truthy(hospital_data)
       THEN \E outcome \in {"ok", "write_error"} :
            \E after \in FailedWriteStates(tables[CBI_HOSPITAL_DATA_TABLE]) :
              /\ outcome = "ok" => after = tables[CBI_HOSPITAL_DATA_TABLE]
              /\ tables' = [tables EXCEPT ![CBI_HOSPITAL_DATA_TABLE] =
                               IF outcome = "ok"
                               THEN ToSqlReplaceWhole(@, hospital_data)
                               ELSE after]
              /\ sinkErrors' = IF outcome = "ok" THEN sinkErrors
                               ELSE sinkErrors + 1
              /\ runSinkError' = (outcome # "ok")
       ELSE UNCHANGED <<tables, sinkErrors, runSinkError>>
    /\ pc' = "finished"
    /\ UNCHANGED <<script, dataset, run, all_data, offset, total_records,
                   requested, sample_hospitals, hospital_data, df, exit,
                   raised, received, lastResp, fetches, sleeps, fetchesTotal,
                   metaWritten, metaWrites, prev, loads>>

NextCbi ==
    \/ StartCbi
    \/ CbiPrintParameters
    \/ CbiTestConnection
    \/ CbiFetchState
    \/ CbiSaveHospitals
    \/ CbiSample
    \/ CbiFetchDetail
    \/ CbiSaveHospitalData

SpecCbi == Init /\ [][NextCbi]_vars

(* ---------------- process_nested_dicts called on its own --------------- *)
\* the scalars of a parsed JSON body
JsonScalars ==
    {Scalar("int", "1"), Scalar("str", "a"), Scalar("bool", "True"), PyNone}

\* the values of a parsed JSON body nested at most d deep: scalars, the
\* empty list and dict, two-element lists and two-member dicts
RECURSIVE JsonValues(_)
JsonValues(d) ==
    IF d = 0 THEN JsonScalars
    ELSE JsonScalars
         \cup {PyList(<<>>), PyDict(<<>>)}
         \cup {PyList(<<v, Scalar("int", "1")>>) : v \in JsonValues(d - 1)}
         \cup {PyDict(<<Member("a", v), Member("b", PyNone)>>) :
                  v \in JsonValues(d - 1)}

\* the record lists a frame is built from: one value column, 1..MaxCells
\* rows
NestedRecordLists ==
    UNION {[1..n -> JsonValues(MaxDepth)] : n \in 1..MaxCells}

\* the caller holds the frame of an extraction that returned the records
InitNested ==
    /\ script = "ny"
    /\ dataset = NY_INFECTIONS_TABLE
    /\ pc = "returned"
    /\ run = 1
    /\ offset = 0
    /\ total_records = None
    /\ tables = [t \in TableNames |-> NoTable]
    /\ exit = "all_fetched"
    /\ raised = FALSE
    /\ received = <<>>
    /\ lastResp = "ok"
    /\ fetches = 1
    /\ sleeps = 0
    /\ fetchesTotal = 1
    /\ sinkErrors = 0
    /\ runSinkError = FALSE
    /\ metaWritten = <<>>
    /\ metaWrites = 0
    /\ prev = [records |-> <<>>, exit |-> "none"]
    /\ loads = <<>>
    /\ requested = <<>>
    /\ sample_hospitals = <<>>
    /\ hospital_data = <<>>
    /\ \E values \in NestedRecordLists :
         all_data = [i \in 1..Len(values) |->
                        [SourceRecord(i) EXCEPT !.val = values[i]]]
    /\ df = DataFrame(all_data, run)

\* <frame> = process_nested_dicts(<frame>)
ProcessNestedDicts ==
    /\ pc = "returned"
    /\ df' = process_nested_dicts(df)
    /\ pc' = "processed"
    /\ UNCHANGED <<script, dataset, run, all_data, offset, total_records, requested,
                   sample_hospitals, hospital_data,
                   tables, exit, raised, received, lastResp, fetches, sleeps,
                   fetchesTotal, sinkErrors, runSinkError, metaWritten,
                   metaWrites, prev, loads>>

NextNested == ProcessNestedDicts

SpecNested == InitNested /\ [][NextNested]_vars

(* ---------------- load_to_postgres_raw called on its own --------------- *)
\* the snapshots handed to the call: 1..MaxRows records, extracted now
SinkFrames ==
    {DataFrame(PageOf(0, n), now) : n \in 1..MaxRows, now \in 1..2}

\* what the destination table can hold before the call: nothing, no rows,
\* or an earlier snapshot
OldTables ==
    {NoTable, [exists |-> TRUE, rows |-> <<>>]}
    \cup {[exists |-> TRUE, rows |-> DataFrame(PageOf(0, n), 0)] : n \in 1..MaxRows}

\* the caller holds a non-empty frame and a table name; the table is in any
\* earlier state
InitSink ==
    /\ script = "none"
    /\ pc = "sink_ready"
    /\ run = 0
    /\ all_data = <<>>
    /\ offset = 0
    /\ total_records = None
    /\ exit = "none"
    /\ raised = FALSE
    /\ received = <<>>
    /\ lastResp = "none"
    /\ fetches = 0
    /\ sleeps = 0
    /\ fetchesTotal = 0
    /\ sinkErrors = 0
    /\ runSinkError = FALSE
    /\ metaWritten = <<>>
    /\ metaWrites = 0
    /\ prev = [records |-> <<>>, exit |-> "none"]
    /\ loads = <<>>
    /\ requested = <<>>
    /\ sample_hospitals = <<>>
    /\ hospital_data = <<>>
    /\ dataset \in {CMS_TABLE, NY_INFECTIONS_TABLE, NY_PROFILES_TABLE}
    /\ df \in SinkFrames
    /\ \E old \in OldTables :
         tables = [t \in TableNames |-> IF t = dataset THEN old ELSE NoTable]

\* load_to_postgres_raw(df, table_name), called for the first and for the
\* second time with the same frame and the same table name
CallLoadToPostgresRaw ==
    /\ pc \in {"sink_ready", "sink_called"}
    /\ Len(loads) < 2
    /\ \E outcome \in SinkOutcomes :
       \E after \in FailedWriteStates(tables[dataset]) :
         /\ outcome # "write_error" => after = tables[dataset]
         /\ tables' = load_to_postgres_raw(tables, df, dataset, outcome, after)
         /\ loads' = Append(loads, LoadCallOnTable(tables, df, dataset,
                                                   outcome, after))
         /\ sinkErrors' = IF SinkFailed(df, outcome)
                          THEN sinkErrors + 1 ELSE sinkErrors
    /\ pc' = "sink_called"
    /\ UNCHANGED <<script, dataset, run, all_data, offset, total_records, requested,
                   sample_hospitals, hospital_data, df,
                   exit, raised, received, lastResp, fetches, sleeps,
                   fetchesTotal, runSinkError, metaWritten, metaWrites, prev>>

NextSink == CallLoadToPostgresRaw

SpecSink == InitSink /\ [][NextSink]_vars

(* ------------------------- terms of the claims ------------------------- *)
RECURSIVE SumOfSizes(_)
SumOfSizes(pages) ==
    IF Len(pages) = 0 THEN 0 ELSE Len(Head(pages)) + SumOfSizes(Tail(pages))

CeilDiv(a, b) == (a + b - 1) \div b

Min(a, b) == IF a <= b THEN a ELSE b

ReceivedTotal == SumOfSizes(received)

NonEmptyPages == Cardinality({i \in 1..Len(received) : Len(received[i]) > 0})

\* every response so far was a parsed page: a failed fetch ends the loop,
\* so a failure is always the last response
NoFetchFailed == lastResp = "ok"

\* the pages received shrink or keep their size from one to the next
NonIncreasingPages ==
    \A i \in 1..(Len(received) - 1) : Len(received[i + 1]) <= Len(received[i])

\* every page before the last one received is full
FullPagesThenRemainder ==
    \A i \in 1..(Len(received) - 1) : Len(received[i]) = Limit

\* the pages received are those a source holding total_records >= 1 records
\* serves: full pages, then the remainder
ServedByReportedTotal ==
    /\ total_records # None
    /\ total_records >= 1
    /\ Len(received) >= 1
    /\ \A i \in 1..Len(received) :
         /\ Len(received[i]) >= 1
         /\ Len(received[i]) = Min(Limit, total_records - (i - 1) * Limit)

\* json.loads of the Python standard library, by which C19 reads the stored
\* text back: a recursive-descent parse of the tokens; the result of a parse
\* step is the value read and the tokens left
ParseFail == [ok |-> FALSE, value |-> PyNone, rest |-> <<>>]

Parsed(v, rest) == [ok |-> TRUE, value |-> v, rest |-> rest]

RECURSIVE ParseValue(_)
RECURSIVE ParseElements(_, _)
RECURSIVE ParseMembers(_, _)
ParseElements(tokens, acc) ==
    LET v == ParseValue(tokens)
    IN  IF ~v.ok \/ Len(v.rest) = 0 THEN ParseFail
        ELSE IF Head(v.rest) = Punct(",")
             THEN ParseElements(Tail(v.rest), Append(acc, v.value))
        ELSE IF Head(v.rest) = Punct("]")
             THEN Parsed(PyList(Append(acc, v.value)), Tail(v.rest))
        ELSE ParseFail

ParseMembers(tokens, acc) ==
    IF Len(tokens) < 2 \/ tokens[1].t # "string" \/ tokens[2] # Punct(":")
    THEN ParseFail
    ELSE LET v == ParseValue(SubSeq(tokens, 3, Len(tokens)))
             members == Append(acc, Member(tokens[1].s, v.value))
         IN  IF ~v.ok \/ Len(v.rest) = 0 THEN ParseFail
             ELSE IF Head(v.rest) = Punct(",")
                  THEN ParseMembers(Tail(v.rest), members)
             ELSE IF Head(v.rest) = Punct("}")
                  THEN Parsed(PyDict(members), Tail(v.rest))
             ELSE ParseFail

ParseValue(tokens) ==
    IF Len(tokens) = 0 THEN ParseFail
    ELSE LET h == Head(tokens)
             rest == Tail(tokens)
         IN  CASE h.t = "integer" -> Parsed(Scalar("int", h.s), rest)
               [] h.t = "real" -> Parsed(Scalar("float", h.s), rest)
               [] h.t = "string" -> Parsed(Scalar("str", h.s), rest)
               [] h.t = "literal" ->
                    IF h.s = "true" THEN Parsed(Scalar("bool", "True"), rest)
                    ELSE IF h.s = "false" THEN Parsed(Scalar("bool", "False"), rest)
                    ELSE IF h.s = "null" THEN Parsed(PyNone, rest)
                    ELSE ParseFail
               [] h = Punct("[") ->
                    IF Len(rest) > 0 /\ Head(rest) = Punct("]")
                    THEN Parsed(PyList(<<>>), Tail(rest))
                    ELSE ParseElements(rest, <<>>)
               [] h = Punct("{") ->
                    IF Len(rest) > 0 /\ Head(rest) = Punct("}")
                    THEN Parsed(PyDict(<<>>), Tail(rest))
                    ELSE ParseMembers(rest, <<>>)
               [] OTHER -> ParseFail

\* json.loads(text); a JSONDecodeError is the value of type "error"
json_loads(text) ==
    LET r == ParseValue(text.items)
    IN  IF r.ok /\ Len(r.rest) = 0 THEN r.value
        ELSE Scalar("error", "JSONDecodeError")

(* ------------------------------- claims -------------------------------- *)
\* C1: on every exit of a paginated extraction, exhausted or aborted, the
\* returned records are the concatenation of the pages received, in arrival
\* order and then in page order, and their number is the sum of the sizes
\* of the pages received.
C1_ReturnedIsConcatenation ==
    pc = "returned" =>
        /\ Records(df) = Flatten(received)
        /\ Len(df) = SumOfSizes(received)

C1_Witness ==
    /\ pc = "returned"
    /\ exit \in AbortedBreaks
    /\ NonEmptyPages >= 2
    /\ Len(df) > Limit

C3_StopsAtReportedTotal ==
    /\ (script = "cms" /\ NoFetchFailed /\ ServedByReportedTotal) =>
         /\ pc = "returned" =>
              /\ exit = "all_fetched"
              /\ fetches = CeilDiv(total_records, Limit)
              /\ Len(df) = total_records
         /\ pc = "fetching" => fetches < CeilDiv(total_records, Limit)
    /\ (script = "cms" /\ pc = "fetching" /\ total_records # None) =>
         Len(all_data) < total_records

\* pages of 2, 2 and 1 records for a reported total of 5
C3_Witness ==
    /\ script = "cms"
    /\ pc = "returned"
    /\ NoFetchFailed
    /\ ServedByReportedTotal
    /\ fetches = 3
    /\ Len(received[3]) < Limit
    /\ Len(df) = total_records

\* C4: when a page fetch fails (transport exception, non-200 status or a
\* body that is no JSON), nothing is raised to the caller and the function
\* returns exactly the records of the pages received before the failure.
C4_FailureReturnsAccumulated ==
    (pc \in {"returned", "crashed"} /\ lastResp \in FailKinds) =>
        /\ pc = "returned"
        /\ ~raised
        /\ exit \in AbortedBreaks
        /\ Records(df) = Flatten(received)

C4_Witness ==
    /\ pc = "returned"
    /\ lastResp = "bad_json"
    /\ Len(df) >= Limit

\* C5: an extraction that ended aborted and one that ended exhausted with
\* the same accumulated records return results the caller can tell apart
\* (the extracted_at stamps, wall-clock readings, set aside).
C5_ResultsTellExitsApart ==
    ( /\ pc = "returned"
      /\ \/ prev.exit \in AbortedBreaks /\ exit \in ExhaustedBreaks
         \/ prev.exit \in ExhaustedBreaks /\ exit \in AbortedBreaks )
    => Records(df) # prev.records

\* C6: after a source failure on a later page, with n > 0 records
\* accumulated, the run ends aborted with n records and the metadata record
\* written for it has status "failure" and rows_extracted = n.
C6_FailureMetadata ==
    ( /\ pc = "dataset_done"
      /\ lastResp \in FailKinds
      /\ Len(all_data) > 0
      /\ ~runSinkError )
    => /\ exit \in AbortedBreaks
       /\ Len(df) = Len(all_data)
       /\ metaWritten =
            <<[dataset |-> dataset, rows_extracted |-> Len(all_data),
               extracted_at |-> run, extraction_status |-> "failure"]>>

\* C7: an empty first page with no total reported ends the extraction as
\* exhausted after exactly 1 fetch with 0 records, and the run still writes
\* a metadata record with rows_extracted = 0 and status "success".
C7_EmptyRunMetadata ==
    ( /\ pc = "dataset_done"
      /\ fetches = 1
      /\ received = << <<>> >>
      /\ total_records = None
      /\ ~runSinkError )
    => /\ exit = "no_more"
       /\ Len(df) = 0
       /\ metaWritten =
            <<[dataset |-> dataset, rows_extracted |-> 0,
               extracted_at |-> run, extraction_status |-> "success"]>>

\* C8: every extract-and-load of a dataset writes exactly one metadata
\* record, describing that dataset's run, empty snapshot or not.
C8_OneMetadataRecordPerRun ==
    (pc = "dataset_done" /\ ~runSinkError) =>
        /\ Len(metaWritten) = 1
        /\ metaWritten[1].dataset = dataset
        /\ metaWritten[1].extracted_at = run

\* C9: the metadata table is an append-only log: it holds as many rows as
\* metadata records were written, by whichever scripts in whichever order.
C9_MetadataAppendOnly ==
    sinkErrors = 0 => Len(tables[METADATA_TABLE].rows) = metaWrites

\* C10: once a dataset's extract-and-load is over, the destination table
\* holds exactly the snapshot of that run, also when the snapshot is empty.
C10_TableIsLatestSnapshot ==
    (pc = "dataset_done" /\ exit \in ExhaustedBreaks /\ ~runSinkError) =>
        tables[dataset].rows = df


\* C11: two successive calls of load_to_postgres_raw with the same non-empty
\* frame and the same table name, neither write raising: whatever the table
\* held before, after the second call it holds what it held after the
\* first, the frame's rows, and the second call prints the count the first
\* one printed.
C11_SecondLoadChangesNothing ==
    ( /\ pc = "sink_called"
      /\ Len(loads) = 2
      /\ "count" \in {loads[1].statements[i] : i \in 1..Len(loads[1].statements)}
      /\ "count" \in {loads[2].statements[i] : i \in 1..Len(loads[2].statements)} )
    => /\ loads[2].after = loads[1].after
       /\ tables[dataset] = loads[1].after
       /\ tables[dataset].rows = df
       /\ (loads[1].count # None /\ loads[2].count # None) =>
              /\ loads[2].count = loads[1].count
              /\ loads[2].count = Len(df)

\* the table held an earlier snapshot of another size, the frame fills more
\* than one insert batch, both calls printed their count
C11_Witness ==
    /\ pc = "sink_called"
    /\ Len(loads) = 2
    /\ Len(loads[1].before.rows) > 0
    /\ Len(loads[1].before.rows) # Len(df)
    /\ Len(df) > ChunkSize
    /\ loads[1].count # None
    /\ loads[2].count = loads[1].count
    /\ tables[dataset] = loads[1].after

\* C12: the chunked replace looks like one atomic replace: after a call of
\* load_to_postgres_raw on a table that held an earlier snapshot, failed or
\* not, the table holds either all of its earlier rows or all of the new
\* snapshot, never no table, no rows or a part.
C12_ReplaceLooksAtomic ==
    \A i \in 1..Len(loads) :
        ( /\ pc = "sink_called"
          /\ Len(loads[i].before.rows) > 0 )
        => \/ loads[i].after = loads[i].before
           \/ loads[i].after = [exists |-> TRUE, rows |-> df]

\* C13: a call of load_to_postgres_raw whose write completed sends the
\* COUNT(*) query after the write and nothing else; a call whose write
\* raised sends no COUNT(*); and the count printed is the number of records
\* of the snapshot, all of them in the table.
C13_CountFollowsCompletedWrite ==
    \A i \in 1..Len(loads) :
        /\ loads[i].outcome = "write_error" =>
              \A k \in 1..Len(loads[i].statements) :
                  loads[i].statements[k] # "count"
        /\ loads[i].outcome # "write_error" =>
              /\ loads[i].statements = <<"to_sql", "count">>
              /\ Len(tables[loads[i].table_name].rows) = loads[i].rows
        /\ loads[i].outcome = "ok" => loads[i].count = loads[i].rows

\* a snapshot of more than one insert batch, written and counted; and in the
\* same run a call whose write raised
C13_Witness ==
    /\ Len(loads) = 2
    /\ loads[1].outcome = "ok"
    /\ loads[1].rows > ChunkSize
    /\ loads[1].count = loads[1].rows
    /\ loads[2].outcome = "write_error"
    /\ loads[2].statements = <<"to_sql">>

\* C15: when the write of a dataset's snapshot or the count check after it
\* fails, the run records no metadata row with extraction_status "success"
\* for that dataset.
C15_SinkFailureWritesNoSuccess ==
    ( /\ pc = "dataset_done"
      /\ Len(loads) >= 1
      /\ loads[1].table_name = dataset
      /\ loads[1].outcome # "ok" )
    => \A i \in 1..Len(metaWritten) :
           ~( /\ metaWritten[i].dataset = dataset
              /\ metaWritten[i].extraction_status = "success" )

\* C14: within one invocation the write of each dataset is attempted
\* whatever became of the writes before it: once save_to_database has
\* returned, a to_sql was attempted for each of the three HCUP tables.
C14_EveryWriteAttempted ==
    pc = "hcup_saved" =>
        \A i \in 1..Len(HcupTables) :
            \E k \in 1..Len(loads) : loads[k].table_name = HcupTables[i]

\* C16: a transport failure or a non-success HTTP response while a dataset
\* is fetched, the per-state hospital list of the CBI script included, ends
\* or continues the fetch loop without an uncaught exception and does not
\* end the script.
C16_FetchFailureDoesNotTerminate ==
    lastResp \in {"conn_error", "http_error"} =>
        /\ ~raised
        /\ pc # "crashed"

\* C17: a 200 response whose body has not the expected structure ends the
\* extraction as aborted: it is not taken for an empty page (a normal
\* end), and nothing of it enters the accumulated records.
C17_MalformedBodyAborts ==
    (pc \in {"returned", "crashed"} /\ lastResp = "malformed") =>
        /\ exit \in AbortedBreaks
        /\ \A i \in 1..Len(all_data) : IsMapping(all_data[i])

\* C18: after process_nested_dicts no cell holds a dict or a list: every
\* cell that held one holds the JSON text of it, and every other cell,
\* those of a column with nested cells included, holds the value it held.
C18_NoNestedCellLeft ==
    pc = "processed" =>
        /\ Len(df) = Len(all_data)
        /\ \A i \in 1..Len(df) :
             /\ ~IsNested(df[i].val)
             /\ IsNested(all_data[i].val) =>
                   /\ df[i].val.t = "text"
                   /\ df[i].val.items = Serialize(all_data[i].val, "json")
             /\ ~IsNested(all_data[i].val) => df[i].val = all_data[i].val
             /\ df[i].id = all_data[i].id
             /\ df[i].ratio = all_data[i].ratio
             /\ df[i].extracted_at = run

\* a column with a nested cell next to a scalar one
C18_Witness ==
    /\ pc = "processed"
    /\ Len(df) = MaxCells
    /\ all_data[1].val.t = "dict"
    /\ df[1].val.t = "text"
    /\ all_data[2].val.t = "str"
    /\ df[2].val = all_data[2].val

\* C19: for every cell that held a list or a dict built from JSON values,
\* parsing the text process_nested_dicts stored for it gives a value equal
\* to the one the cell held.
C19_TextParsesBack ==
    pc = "processed" =>
        \A i \in 1..Len(df) :
            IsNested(all_data[i].val) => json_loads(df[i].val) = all_data[i].val

\* a dict that holds a list that holds a string, true and null
C19_Witness ==
    /\ pc = "processed"
    /\ \E i \in 1..Len(df) :
         /\ all_data[i].val =
              PyDict(<<Member("a", PyList(<<Scalar("bool", "True"),
                                            Scalar("int", "1")>>)),
                       Member("b", PyNone)>>)
         /\ df[i].val.t = "text"
         /\ json_loads(df[i].val) = all_data[i].val

\* C20: every field of the snapshot in the sink that is meant as a number
\* holds a number or the null marker, never the unconverted string.
C20_NumericFieldsConverted ==
    \A t \in {CMS_TABLE, NY_INFECTIONS_TABLE, NY_PROFILES_TABLE} :
        \A i \in 1..Len(tables[t].rows) :
            tables[t].rows[i].ratio.t \in {"float", "int", "NoneType"}

(* ---------------- the pagination protocol, step by step ----------------- *)
\* the last page received with status 200
LastPage == received[Len(received)]

\* the page a source of T records gives for the i-th request: the records
\* at the positions from the requested offset on, at most Limit of them
WellBehavedPage(i, T) ==
    /\ Len(received[i]) =
           Min(Limit, IF requested[i] < T THEN T - requested[i] ELSE 0)
    /\ received[i] = PageOf(requested[i], Len(received[i]))

\* C21: in the CMS extraction, a successfully fetched page that holds at
\* least one record while no total has been reported leaves the loop
\* running: no break is taken and the next page is fetched.
C21_GoesOnWithoutReportedTotal ==
    ( /\ script = "cms"
      /\ lastResp = "ok"
      /\ Len(received) > 0
      /\ Len(LastPage) > 0
      /\ total_records = None )
    => exit = "none"

\* C22: a successfully fetched page with zero records ends the extraction
\* at once through the "no more results" break, and no further request is
\* issued, also when fewer records than the reported total were collected.
C22_EmptyPageStops ==
    ( /\ lastResp = "ok"
      /\ Len(received) > 0
      /\ Len(LastPage) = 0 )
    => /\ exit = "no_more"
       /\ pc # "fetching"
       /\ Len(requested) = Len(received)
       /\ all_data = Flatten(received)

\* the CMS source reported 2 * Limit or more records, gave one page and
\* then an empty one: the extraction has returned below the total
C22_Witness ==
    /\ script = "cms"
    /\ pc = "returned"
    /\ exit = "no_more"
    /\ total_records # None
    /\ Len(all_data) > 0
    /\ Len(all_data) < total_records

\* C23: within one extraction no offset is requested twice, and the first
\* failed page (an exception or a status other than 200) is the last
\* request of the extraction.
C23_NoRetries ==
    /\ Len(requested) = fetches
    /\ \A i, j \in 1..Len(requested) :
           i # j => requested[i] # requested[j]
    /\ lastResp \in FailKinds => /\ exit \in AbortedBreaks
                                 /\ pc # "fetching"

\* a page failed after two pages were merged, and the extraction returned
C23_Witness ==
    /\ lastResp \in FailKinds
    /\ fetches = 3
    /\ Len(received) = 2
    /\ pc = "returned"

\* C24: the k-th request of an extraction asks for offset (k - 1) * Limit,
\* whatever the sizes of the pages received before.
C24_OffsetsAreMultiplesOfLimit ==
    \A k \in 1..Len(requested) : requested[k] = (k - 1) * Limit

\* three requests, the first of which was answered with a short page
C24_Witness ==
    /\ script = "cms"
    /\ Len(requested) = 3
    /\ Len(received) >= 2
    /\ Len(received[1]) < Limit
    /\ Len(received[2]) < Limit
    /\ requested[3] = 2 * Limit

\* C25: one delay follows each fetch after which the loop goes on, and
\* none follows the fetch that ends the loop: while the loop runs there
\* are as many delays as fetches, and one less once it has ended.
C25_OneDelayBetweenFetches ==
    /\ pc = "fetching" => sleeps = fetches
    /\ (pc # "fetching" /\ fetches > 0) => sleeps = fetches - 1

\* an extraction of three fetches has returned after two delays
C25_Witness ==
    /\ pc = "returned"
    /\ fetches = 3
    /\ sleeps = 2

\* C26: a loop step never shortens the buffer; the buffer changes only in
\* a step that merges a non-empty page, by that page; a failed or an empty
\* page leaves it as it was.
C26_BufferGrowsOnlyByMerge ==
    [][ fetches' = fetches + 1 =>
          /\ Len(all_data') >= Len(all_data)
          /\ SubSeq(all_data', 1, Len(all_data)) = all_data
          /\ all_data' # all_data =>
                 /\ Len(received') = Len(received) + 1
                 /\ Len(received'[Len(received')]) > 0
                 /\ all_data' = all_data \o received'[Len(received')]
          /\ lastResp' \in FailKinds => all_data' = all_data
          /\ ( /\ Len(received') = Len(received) + 1
               /\ Len(received'[Len(received')]) = 0 ) => all_data' = all_data
      ]_vars

\* a failed page came after two merged pages, and the buffer holds both
C26_Witness ==
    /\ lastResp \in FailKinds
    /\ Len(received) = 2
    /\ Len(received[1]) > 0
    /\ Len(received[2]) > 0
    /\ all_data = received[1] \o received[2]

\* C27: against a source that holds T records, answers each request with
\* the records at the requested positions and (CMS) reports the total T,
\* the extraction returns the T records, each once, in source order.
C27_CompleteOnWellBehavedSource ==
    \A T \in 0..(Limit * MaxFetches) :
        ( /\ pc = "returned"
          /\ lastResp = "ok"
          /\ Len(received) = Len(requested)
          /\ \A i \in 1..Len(received) : WellBehavedPage(i, T)
          /\ script = "cms" => total_records = T )
        => /\ Records(df) = PageOf(0, T)
           /\ exit \in ExhaustedBreaks

\* the NY source held 2 * Limit records: two full pages, then an empty one
C27_Witness ==
    /\ script = "ny"
    /\ pc = "returned"
    /\ Len(received) = 3
    /\ \A i \in 1..Len(received) : WellBehavedPage(i, 2 * Limit)
    /\ Len(df) = 2 * Limit
    /\ exit = "no_more"

(* ------------------------ the HCUP scrape log --------------------------- *)
\* the row of raw.hcup_scrape_log written last
LastLogRow ==
    tables[HCUP_LOG_TABLE].rows[Len(tables[HCUP_LOG_TABLE].rows)]

\* C29: in the HCUP script a row of raw.hcup_scrape_log is written only in
\* a run whose three table replaces all succeeded, so that the record
\* counts of the row just written are the row counts of the three raw
\* tables.
C29_LogRowOnlyAfterFullSave ==
    (script = "hcup" /\ pc = "hcup_logged") =>
        /\ ~runSinkError
        /\ LastLogRow.record_count_readmissions =
               Len(tables[HCUP_READMISSIONS_TABLE].rows)
        /\ LastLogRow.record_count_quality_indicators =
               Len(tables[HCUP_QUALITY_TABLE].rows)
        /\ LastLogRow.record_count_hospitals =
               Len(tables[HCUP_HOSPITALS_TABLE].rows)

(* --------------------------- the CBI script ----------------------------- *)
\* the hospital ids of the rows of hospitals_df
HospitalIds == {df[i].id : i \in 1..Len(df)}

\* C28: the detail loop of the CBI script issues one request for each of
\* the min(SampleCap, N) sampled hospitals, each followed by one delay; a
\* failed request (exception, status other than 200, body that is no JSON)
\* leaves the accumulated records as they were and does not stop the loop,
\* so that the result is the concatenation of the successful responses in
\* request order.
C28_DetailLoopVisitsEverySampledHospital ==
    (script = "cbi" /\ pc \in {"cbi_details", "finished"}) =>
        /\ Len(sample_hospitals) = Min(SampleCap, Len(df))
        /\ \A i, j \in 1..Len(sample_hospitals) :
               i # j => sample_hospitals[i] # sample_hospitals[j]
        /\ \A i \in 1..Len(sample_hospitals) :
               sample_hospitals[i] \in HospitalIds
        /\ Len(requested) = fetches
        /\ requested = SubSeq(sample_hospitals, 1, fetches)
        /\ sleeps = fetches
        /\ hospital_data = Flatten(received)
        /\ \A k \in 1..Len(received) : \A y \in 1..Len(received[k]) :
               \E i \in 1..Len(requested) :
                   received[k][y].hospital_id = requested[i]
        /\ ~raised
        /\ pc = "finished" => requested = sample_hospitals

\* more hospitals than the cap were listed; the first request of the
\* sample failed, the second was answered with data, and the loop is over
C28_Witness ==
    /\ script = "cbi"
    /\ pc = "finished"
    /\ Len(df) > SampleCap
    /\ fetches = SampleCap
    /\ Len(received) = 1
    /\ lastResp = "ok"
    /\ Len(hospital_data) > 0
    /\ hospital_data[1].hospital_id = requested[2]

\* C30: with DB_HOST, DB_USER and DB_PASSWORD set, no stage of the CBI
\* script before the hospital fetch raises: the run comes to the fetch
\* with no exception having left a cell.
C30_SetupReachesFetch ==
    ( /\ script = "cbi"
      /\ pc \in {"cbi_configured", "cbi_printed", "cbi_states", "crashed"}
      /\ requested = <<>> )
    => ~raised

====
